---------------------------- MODULE Spec2Model ----------------------------
(***************************************************************************)
(* Model of the NeXus data-converter validation helpers                    *)
(*   src/nexusparser/tools/dataconverter/helpers.py                        *)
(* and of the NXDL navigation functions they rely on                       *)
(*   src/nexusparser/tools/read_nexus.py                                   *)
(*                                                                         *)
(* Python strings are sequences of one-character strings, so that split,   *)
(* slicing, the regular expressions and the substring test act on          *)
(* characters as they do in the code.  Python values and XML elements are  *)
(* records; None and a raised exception are records as well.               *)
(***************************************************************************)
EXTENDS Integers, Sequences, FiniteSets, TLC

VARIABLES
    pc,         \* "idle" | "returned" (a helper was called) | "loop" | "done" | "raised"
    call,       \* the helper call made from "idle": its name, arguments and result
    nxdl_root,  \* validate_data_dict: the schema root element, or None
    template,   \* validate_data_dict: the declared paths, in iteration order
    data,       \* validate_data_dict: the populated dict, as a sequence of [key, val]
    idx,        \* validate_data_dict: position of the for loop in template
    last,       \* validate_data_dict: the path examined by the last iteration and its outcome
    result      \* validate_data_dict: NoResult, [kind |-> "return", ...] or [kind |-> "raise", ...]

vars == <<pc, call, nxdl_root, template, data, idx, last, result>>

-----------------------------------------------------------------------------
(* Bounds of the model                                                     *)

\* Number of declared paths in a schema template.
MaxTemplate == 2

\* Number of entries in a populated data dict.
MaxData == 2

\* Number of elements of a list value.
MaxList == 2

\* Number of segments of a path given to the path conversions.
MaxSegments == 2

\* Depth of recursion the interpreter allows before it raises RecursionError.
MaxRecursion == 6

-----------------------------------------------------------------------------
(* Python values                                                           *)

None == [kind |-> "NoneType"]

PyStr(s) == [kind |-> "str", s |-> s]

PyInt(n) == [kind |-> "int", v |-> n]

PyBool(b) == [kind |-> "bool", v |-> b]

PyFloat(n) == [kind |-> "float", v |-> n]

PyList(items) == [kind |-> "list", items |-> items]

\* A numpy array, by its elements in flattened (C) order.
NdArray(flat) == [kind |-> "np.ndarray", flat |-> flat]

\* A numpy scalar of the given numpy class.
NpScalar(cls, n) == [kind |-> cls, v |-> n]

Bytes == [kind |-> "bytes"]

\* A raised exception.
Raise(exc) == [kind |-> "raise", exc |-> exc]

IsRaise(x) == x.kind = "raise"

-----------------------------------------------------------------------------
(* Python string operations, on sequences of characters                    *)

\* The line feed, which "." in a regular expression does not match.
LF == "\n"

\* The least and the greatest member of a set of positions, 0 when it is
\* empty.
FirstOf(at) == IF at = {} THEN 0 ELSE CHOOSE i \in at : \A j \in at : i <= j

LastOf(at) == IF at = {} THEN 0 ELSE CHOOSE i \in at : \A j \in at : j <= i

\* str.find(c) + 1: the first position of character c in s, 0 when absent.
Find(s, c) == FirstOf({i \in 1..Len(s) : s[i] = c})

\* str.rindex(c) + 1: the last position of character c in s, 0 when absent.
RFind(s, c) == LastOf({i \in 1..Len(s) : s[i] = c})

\* s[i:] with a 0-based i, written with the 1-based position i + 1.
From(s, pos) == SubSeq(s, pos, Len(s))

\* a in b, for strings: a occurs in b as a contiguous substring.
Contains(b, a) ==
    \E i \in 0..(Len(b) - Len(a)) : SubSeq(b, i + 1, i + Len(a)) = a

\* b.endswith(a)
EndsWith(b, a) ==
    Len(a) <= Len(b) /\ SubSeq(b, Len(b) - Len(a) + 1, Len(b)) = a

\* s.split(c): the list of the pieces of s between occurrences of c.
RECURSIVE Split(_, _)
Split(s, c) ==
    LET i == Find(s, c)
    IN IF i = 0 THEN <<s>>
       ELSE <<SubSeq(s, 1, i - 1)>> \o Split(From(s, i + 1), c)

\* s.rsplit(c, 1)[0]: s up to its last c, the whole of s when it has none.
RSplitHead(s, c) ==
    LET i == RFind(s, c)
    IN IF i = 0 THEN s ELSE SubSeq(s, 1, i - 1)

\* seq[1:]
Rest(seq) == IF Len(seq) = 0 THEN <<>> ELSE Tail(seq)

-----------------------------------------------------------------------------
(* Path model (helpers.py)                                                 *)

\* regex (.*)(?=\[) searched in entry, the greedy form: the text before the
\* last "[".
convert_data_converter_entry_to_nxdl_path_entry_greedy(entry) ==
    LET i == RFind(entry, "[")
        breaks == {n \in 1..(i - 1) : entry[n] = LF}
        start == IF breaks = {} THEN 1 ELSE 1 + CHOOSE n \in breaks : \A m \in breaks : m <= n
    IN IF i = 0 THEN entry ELSE SubSeq(entry, start, i - 1)

\* regex (.*?)(?=\[) searched in entry: the text before the first "[", from
\* the start of the entry or, "." matching no line feed, from after the last
\* line feed before that "["; the entry itself when it has no "[".
convert_data_converter_entry_to_nxdl_path_entry(entry) ==
    LET i == Find(entry, "[")
        breaks == {n \in 1..(i - 1) : entry[n] = LF}
        start == IF breaks = {} THEN 1 ELSE 1 + CHOOSE n \in breaks : \A m \in breaks : m <= n
    IN IF i = 0 THEN entry ELSE SubSeq(entry, start, i - 1)

RECURSIVE ConcatNxdlEntries(_)
ConcatNxdlEntries(entries) ==
    IF entries = <<>> THEN <<>>
    ELSE <<"/">> \o convert_data_converter_entry_to_nxdl_path_entry(Head(entries))
         \o ConcatNxdlEntries(Tail(entries))

\* The conversion with the empty pieces of the split left out.
convert_data_converter_dict_to_nxdl_path_skipping_empty(path) ==
    ConcatNxdlEntries(SelectSeq(Rest(Split(path, "/")), LAMBDA entry : entry # <<>>))

\* /ENTRY[entry]/sample -> /ENTRY/sample
convert_data_converter_dict_to_nxdl_path(path) ==
    ConcatNxdlEntries(Rest(Split(path, "/")))

\* regex (?<=\[)(.*?)(?=\]) searched in entry: the text between the first "["
\* that has a "]" after it with no line feed between, and the first such "]";
\* the entry itself when there is no such pair.
get_name_from_data_dict_entry(entry) ==
    LET closes(i) == {j \in (i + 1)..Len(entry) :
                        /\ entry[j] = "]"
                        /\ \A k \in (i + 1)..(j - 1) : entry[k] \notin {"]", LF}}
        opens == {i \in 1..Len(entry) : entry[i] = "[" /\ closes(i) # {}}
        first == CHOOSE i \in opens : \A k \in opens : i <= k
    IN IF opens = {} THEN entry
       ELSE SubSeq(entry, first + 1, (CHOOSE j \in closes(first) : TRUE) - 1)

RECURSIVE ConcatHdf5Entries(_)
ConcatHdf5Entries(entries) ==
    IF entries = <<>> THEN <<>>
    ELSE <<"/">> \o get_name_from_data_dict_entry(Head(entries))
         \o ConcatHdf5Entries(Tail(entries))

\* /ENTRY[entry]/sample -> /entry/sample
convert_data_dict_path_to_hdf5_path(path) ==
    ConcatHdf5Entries(Rest(Split(path, "/")))

-----------------------------------------------------------------------------
(* NXDL documents: XML elements as records                                 *)

\* An XML element.  base is the URL of the document it was parsed from, by
\* its directory components; text is whether the element carries text that
\* evaluates true; children are its child elements in document order.
Elem(tag, attrib, base, text, children) ==
    [kind |-> "Element", tag |-> tag, attrib |-> attrib, base |-> base,
     text |-> text, children |-> children]

\* Truth value of an element, as "if ownChild:" evaluates it: lxml's
\* _Element.__bool__ is "has children", and objectify's data elements
\* (leaves) are true only when they carry text that evaluates true.
Truthy(x) ==
    /\ x # None
    /\ (Len(x.children) > 0 \/ x.text)

NX_CHAR == <<"N", "X", "_", "C", "H", "A", "R">>

DOC == <<"d", "o", "c">>

ENUMERATION == <<"e", "n", "u", "m", "e", "r", "a", "t", "i", "o", "n">>

UpperCase ==
    {"A", "B", "C", "D", "E", "F", "G", "H", "I", "J", "K", "L", "M",
     "N", "O", "P", "Q", "R", "S", "T", "U", "V", "W", "X", "Y", "Z"}

-----------------------------------------------------------------------------
(* The NXDL documents of the model: two application definitions and the    *)
(* base classes they use.  Class and field names are short; class names    *)
(* keep the NX prefix, so that their third character is the one the code   *)
(* inspects.                                                               *)

NX_FLOAT == <<"N", "X", "_", "F", "L", "O", "A", "T">>

NX_INT == <<"N", "X", "_", "I", "N", "T">>

NX_UINT == <<"N", "X", "_", "U", "I", "N", "T">>

NX_NUMBER == <<"N", "X", "_", "N", "U", "M", "B", "E", "R">>

NX_POSINT == <<"N", "X", "_", "P", "O", "S", "I", "N", "T">>

NX_BOOLEAN == <<"N", "X", "_", "B", "O", "O", "L", "E", "A", "N">>

NX_BINARY == <<"N", "X", "_", "B", "I", "N", "A", "R", "Y">>

NX_DATE_TIME == <<"N", "X", "_", "D", "A", "T", "E", "_", "T", "I", "M", "E">>

ISO8601 == <<"I", "S", "O", "8", "6", "0", "1">>

NXDL_TYPE_UNAVAILABLE ==
    <<"N", "X", "D", "L", "_", "T", "Y", "P", "E", "_",
      "U", "N", "A", "V", "A", "I", "L", "A", "B", "L", "E">>

NXe == <<"N", "X", "e">>

NXi == <<"N", "X", "i">>

NXix == <<"N", "X", "i", "x">>

NXd == <<"N", "X", "d">>

GROUP == <<"g", "r", "o", "u", "p">>

AppBase == <<"definitions", "applications">>

BcBase == <<"definitions", "base_classes">>

DocElem(base) == Elem("doc", <<>>, base, TRUE, <<>>)

ItemElem(base, value) == Elem("item", [value |-> value], base, FALSE, <<>>)

\* <enumeration> with one <item value=.../> per value
EnumElem(base, values) ==
    Elem("enumeration", <<>>, base, FALSE,
         [i \in 1..Len(values) |-> ItemElem(base, values[i])])

\* Base class NXe: every field is declared without children, as base classes
\* may; c is recommended, NXi is a group of the class.
BcNXe ==
    Elem("definition", [name |-> NXe, type |-> GROUP], BcBase, FALSE,
      << DocElem(BcBase),
         Elem("field", [name |-> <<"t">>], BcBase, FALSE, <<>>),
         Elem("field", [name |-> <<"b">>], BcBase, FALSE, <<DocElem(BcBase)>>),
         Elem("field", [name |-> <<"c">>, recommended |-> "true"], BcBase, FALSE, <<>>),
         Elem("group", [type |-> NXi], BcBase, FALSE, <<DocElem(BcBase)>>) >>)

BcNXi ==
    Elem("definition", [name |-> NXi, type |-> GROUP], BcBase, FALSE,
      << Elem("field", [name |-> <<"s">>, type |-> NX_FLOAT], BcBase, FALSE, <<>>),
         Elem("field", [name |-> <<"o">>, type |-> NX_FLOAT], BcBase, FALSE, <<>>),
         Elem("field", [name |-> <<"p">>, type |-> NX_INT, required |-> "false"],
              BcBase, FALSE, <<DocElem(BcBase)>>) >>)

\* Class NXix has a document of its own; class NXd has none.
BcNXix ==
    Elem("definition", [name |-> NXix, type |-> GROUP], BcBase, FALSE,
      << Elem("field", [name |-> <<"x">>], BcBase, FALSE, <<>>) >>)

BaseClassDocuments ==
    [c \in {NXe, NXi, NXix} |->
        IF c = NXe THEN BcNXe ELSE IF c = NXi THEN BcNXi ELSE BcNXix]

\* Application definition A.  Under the entry NXe: t, n are required fields,
\* r is recommended, d optional, m carries an enumeration and no type, Av is
\* an attribute whose name may be replaced (so the segment @v fits it), and
\* the optional group NXi holds the required field s, the optional field o
\* and the required group NXd with the required field y.  The required group
\* NXix is a sibling of NXi whose class name extends NXi's.
AppA ==
    Elem("definition", [name |-> <<"N", "X", "a">>, type |-> GROUP], AppBase, FALSE,
      << DocElem(AppBase),
         Elem("group", [type |-> NXe], AppBase, FALSE,
           << Elem("field", [name |-> <<"t">>, type |-> NX_CHAR], AppBase, FALSE,
                   <<DocElem(AppBase)>>),
              Elem("field", [name |-> <<"r">>, type |-> NX_FLOAT, recommended |-> "true"],
                   AppBase, FALSE, <<DocElem(AppBase)>>),
              Elem("field", [name |-> <<"n">>, type |-> NX_POSINT], AppBase, FALSE,
                   <<DocElem(AppBase)>>),
              Elem("field", [name |-> <<"d">>, type |-> NX_DATE_TIME, optional |-> "true"],
                   AppBase, FALSE, <<DocElem(AppBase)>>),
              Elem("field", [name |-> <<"m">>], AppBase, FALSE,
                   <<DocElem(AppBase),
                     EnumElem(AppBase, <<<<"a">>, <<"b">>, <<"c">>>>)>>),
              Elem("attribute", [name |-> <<"A", "v">>, nameType |-> "any", type |-> NX_CHAR],
                   AppBase, FALSE, <<DocElem(AppBase)>>),
              Elem("group", [type |-> NXi, optional |-> "true"], AppBase, FALSE,
                << Elem("field", [name |-> <<"s">>, type |-> NX_FLOAT], AppBase, FALSE,
                        <<DocElem(AppBase)>>),
                   Elem("field", [name |-> <<"o">>, type |-> NX_FLOAT, optional |-> "true"],
                        AppBase, FALSE, <<DocElem(AppBase)>>),
                   Elem("group", [type |-> NXd], AppBase, FALSE,
                     << Elem("field", [name |-> <<"y">>, type |-> NX_INT], AppBase, FALSE,
                             <<DocElem(AppBase)>>) >>) >>),
              Elem("group", [type |-> NXix], AppBase, FALSE,
                << Elem("field", [name |-> <<"x">>, type |-> NX_CHAR], AppBase, FALSE,
                        <<DocElem(AppBase)>>) >>) >>) >>)

\* Application definition B.  The fields t and s are declared without child
\* elements (<field name="t"/>), NXi is optional by minOccurs="0", k has an
\* unknown primitive-looking type and w the type ISO8601; D is a field whose
\* name may be replaced (nameType="any").
AppB ==
    Elem("definition", [name |-> <<"N", "X", "b">>, type |-> GROUP], AppBase, FALSE,
      << Elem("group", [type |-> NXe, minOccurs |-> "1"], AppBase, FALSE,
           << Elem("field", [name |-> <<"t">>], AppBase, FALSE, <<>>),
              Elem("field", [name |-> <<"w">>, type |-> ISO8601], AppBase, FALSE,
                   <<DocElem(AppBase)>>),
              Elem("field", [name |-> <<"D", "u">>, nameType |-> "any", type |-> NX_NUMBER],
                   AppBase, FALSE, <<DocElem(AppBase)>>),
              Elem("group", [type |-> NXi, minOccurs |-> "0"], AppBase, FALSE,
                << Elem("field", [name |-> <<"s">>, type |-> NX_FLOAT], AppBase, FALSE,
                        <<>>),
                   Elem("field", [name |-> <<"z">>, type |-> NX_INT], AppBase, FALSE,
                        <<DocElem(AppBase)>>) >>),
              Elem("group", [type |-> NXd, recommended |-> "true"], AppBase, FALSE,
                << Elem("field", [name |-> <<"y">>, type |-> NX_INT], AppBase, FALSE,
                        <<DocElem(AppBase)>>) >>) >>) >>)

AppDefinitions == {AppA, AppB}

\* Every element of a document, the root included.
RECURSIVE Elements(_)
Elements(e) ==
    {e} \cup UNION {Elements(e.children[i]) : i \in 1..Len(e.children)}

AllElements ==
    UNION {Elements(d) : d \in AppDefinitions \cup {BcNXe, BcNXi, BcNXix}}

-----------------------------------------------------------------------------
(* NXDL navigation (read_nexus.py)                                         *)

\* nxdlElem.attrib['type'], 'NX_CHAR' when the element has no type.
get_nx_class(nxdlElem) ==
    IF "type" \in DOMAIN nxdlElem.attrib THEN nxdlElem.attrib.type ELSE NX_CHAR

\* The length of the leading run of uppercase letters of name (the while loop).
RECURSIVE UpperRun(_)
UpperRun(name) ==
    IF name # <<>> /\ Head(name) \in UpperCase THEN 1 + UpperRun(Tail(name)) ELSE 0

\* belongs_to without the test for the reserved words.
belongs_to_reserved_words_unchecked(nxdlElem, hdfName) ==
    LET nameAny == /\ "nameType" \in DOMAIN nxdlElem.attrib
                   /\ nxdlElem.attrib.nameType = "any"
        name == nxdlElem.attrib.name
        ct == UpperRun(name)
    IN IF nameAny
       THEN ct = Len(name) \/ EndsWith(hdfName, From(name, ct + 1))
       ELSE name = hdfName

belongs_to(nxdlElem, hdfName) ==
    LET nameAny == /\ "nameType" \in DOMAIN nxdlElem.attrib
                   /\ nxdlElem.attrib.nameType = "any"
        name == nxdlElem.attrib.name
        ct == UpperRun(name)
    IN IF nameAny /\ hdfName # DOC /\ hdfName # ENUMERATION
       THEN ct = Len(name) \/ EndsWith(hdfName, From(name, ct + 1))
       ELSE name = hdfName

\* One child against the five tests of the loop body of get_own_nxdl_child.
OwnChildFits(child, name) ==
    \/ child.tag = "group" /\ get_nx_class(child) = name
    \/ child.tag = "field" /\ belongs_to(child, name)
    \/ child.tag = "attribute" /\ belongs_to(child, name)
    \/ child.tag = "doc" /\ name = DOC
    \/ child.tag = "enumeration" /\ name = ENUMERATION

\* The first child, in document order, that fits the name; None when none does.
get_own_nxdl_child(nxdlElem, name) ==
    LET fits == {i \in 1..Len(nxdlElem.children) : OwnChildFits(nxdlElem.children[i], name)}
    IN IF fits = {} THEN None
       ELSE nxdlElem.children[CHOOSE i \in fits : \A j \in fits : i <= j]

\* objectify.parse('definitions/base_classes/' + bc_name + '.nxdl.xml').getroot():
\* the root of the class's document, OSError when there is no such file.
LoadBaseClass(bc_name) ==
    IF bc_name \in DOMAIN BaseClassDocuments THEN BaseClassDocuments[bc_name]
    ELSE Raise("OSError")

\* get_nxdl_child with what it did: ret is the value returned (an element, None
\* or a raised exception) and bc the base class whose document was parsed
\* (the empty string when none was).
get_nxdl_child_trace(nxdlElem, name) ==
    LET ownChild == get_own_nxdl_child(nxdlElem, name)
        bc_name == get_nx_class(nxdlElem)
    IN IF Truthy(ownChild) THEN [ret |-> ownChild, bc |-> <<>>]
       ELSE IF Len(bc_name) < 3 THEN [ret |-> Raise("IndexError"), bc |-> <<>>]
       ELSE IF bc_name[3] = "_" THEN [ret |-> None, bc |-> <<>>]
       ELSE LET bc == LoadBaseClass(bc_name)
            IN IF IsRaise(bc) THEN [ret |-> bc, bc |-> bc_name]
               ELSE [ret |-> get_own_nxdl_child(bc, name), bc |-> bc_name]

get_nxdl_child(nxdlElem, name) == get_nxdl_child_trace(nxdlElem, name).ret

\* "base_classes" in nxdlElem.base
InBaseClasses(nxdlElem) ==
    \E i \in 1..Len(nxdlElem.base) : nxdlElem.base[i] = "base_classes"

\* get_required_string with the recommended test moved before the optional one.
get_required_string_recommended_first(nxdlElem) ==
    IF nxdlElem = None THEN "<<NOT IN SCHEMA>>"
    ELSE IF "recommended" \in DOMAIN nxdlElem.attrib /\ nxdlElem.attrib.recommended = "true"
    THEN "<<RECOMMENDED>>"
    ELSE IF \/ ("optional" \in DOMAIN nxdlElem.attrib /\ nxdlElem.attrib.optional = "true")
            \/ ("minOccurs" \in DOMAIN nxdlElem.attrib /\ nxdlElem.attrib.minOccurs = "0")
            \/ InBaseClasses(nxdlElem)
            \/ ("required" \in DOMAIN nxdlElem.attrib /\ nxdlElem.attrib.required = "false")
    THEN "<<OPTIONAL>>"
    ELSE "<<REQUIRED>>"

get_required_string(nxdlElem) ==
    IF nxdlElem = None THEN "<<NOT IN SCHEMA>>"
    ELSE IF \/ ("optional" \in DOMAIN nxdlElem.attrib /\ nxdlElem.attrib.optional = "true")
            \/ ("minOccurs" \in DOMAIN nxdlElem.attrib /\ nxdlElem.attrib.minOccurs = "0")
    THEN "<<OPTIONAL>>"
    ELSE IF "recommended" \in DOMAIN nxdlElem.attrib /\ nxdlElem.attrib.recommended = "true"
    THEN "<<RECOMMENDED>>"
    ELSE IF \/ InBaseClasses(nxdlElem)
            \/ ("required" \in DOMAIN nxdlElem.attrib /\ nxdlElem.attrib.required = "false")
    THEN "<<OPTIONAL>>"
    ELSE "<<REQUIRED>>"

-----------------------------------------------------------------------------
(* Type and value checker (helpers.py)                                     *)

\* nexus.get_enums(elem): whether the element declares an enumeration, and the
\* values of its items in document order.
get_enums(elem) ==
    LET at == {i \in 1..Len(elem.children) : elem.children[i].tag = "enumeration"}
    IN IF at = {} THEN <<FALSE, <<>>>>
       ELSE LET enum == elem.children[CHOOSE i \in at : \A j \in at : i <= j]
                items == SelectSeq(enum.children, LAMBDA c : c.tag = "item")
            IN <<TRUE, [i \in 1..Len(items) |-> items[i].attrib.value]>>

\* enums[0:-1]
AllButLast(enums) == SubSeq(enums, 1, Len(enums) - 1)

\* value in seq, for a list of strings: Python compares with ==, and only a
\* str is equal to a str.
InStrings(value, strings) ==
    value.kind = "str" /\ \E i \in 1..Len(strings) : strings[i] = value.s

\* is_value_valid_element_of_enum with the slice enums[0:-1] replaced by enums.
is_value_valid_element_of_enum_whole_list(value, elem) ==
    IF elem # None
    THEN LET e == get_enums(elem)
         IN IF e[1] /\ (\/ value.kind = "list"
                        \/ ~InStrings(value, e[2])
                        \/ value = PyStr(<<>>))
            THEN <<FALSE, e[2]>>
            ELSE <<TRUE, <<>>>>
    ELSE <<TRUE, <<>>>>

is_value_valid_element_of_enum(value, elem) ==
    IF elem # None
    THEN LET e == get_enums(elem)
         IN IF e[1] /\ (\/ value.kind = "list"
                        \/ ~InStrings(value, AllButLast(e[2]))
                        \/ value = PyStr(<<>>))
            THEN <<FALSE, e[2]>>
            ELSE <<TRUE, <<>>>>
    ELSE <<TRUE, <<>>>>

NexusTypes ==
    {ISO8601, NX_BINARY, NX_BOOLEAN, NX_CHAR, NX_DATE_TIME, NX_FLOAT, NX_INT,
     NX_UINT, NX_NUMBER, NX_POSINT, NXDL_TYPE_UNAVAILABLE}

\* The accepted Python classes of each NeXus type.
NEXUS_TO_PYTHON_DATA_TYPES ==
    [t \in NexusTypes |->
        CASE t = ISO8601 -> {"str"}
          [] t = NX_BINARY -> {"bytes", "bytearray", "np.byte", "np.ubyte", "np.ndarray"}
          [] t = NX_BOOLEAN -> {"bool", "np.ndarray", "np.bool_"}
          [] t = NX_CHAR -> {"str", "np.ndarray", "np.chararray"}
          [] t = NX_DATE_TIME -> {"str"}
          [] t = NX_FLOAT -> {"float", "np.ndarray", "np.floating"}
          [] t = NX_INT -> {"int", "np.ndarray", "np.signedinteger"}
          [] t = NX_UINT -> {"np.ndarray", "np.unsignedinteger"}
          [] t = NX_NUMBER -> {"int", "float", "np.ndarray", "np.signedinteger",
                               "np.unsignedinteger", "np.floating"}
          [] t = NX_POSINT -> {"int", "np.ndarray", "np.signedinteger"}
          [] t = NXDL_TYPE_UNAVAILABLE -> {"str"}]

\* The classes a value is an instance of: its own class and that class's
\* bases (bool is an int, np.float64 is a float, np.byte is np.int8).
PyClasses(value) ==
    CASE value.kind = "bool" -> {"bool", "int"}
      [] value.kind = "np.int64" -> {"np.int64", "np.signedinteger"}
      [] value.kind = "np.int8" -> {"np.int8", "np.byte", "np.signedinteger"}
      [] value.kind = "np.uint64" -> {"np.uint64", "np.unsignedinteger"}
      [] value.kind = "np.float64" -> {"np.float64", "np.floating", "float"}
      [] value.kind = "np.bool_" -> {"np.bool_"}
      [] OTHER -> {value.kind}

\* isinstance(value, accepted_types)
isinstance(value, accepted_types) == PyClasses(value) \cap accepted_types # {}

\* The loop of check_all_children_for_callable over the outcomes of
\* check(obj, *args), in order: the first outcome that is not True ends the
\* loop, as "return False" or as the exception check raised.
RECURSIVE check_all_children_for_callable(_)
check_all_children_for_callable(outcomes) ==
    IF outcomes = <<>> THEN PyBool(TRUE)
    ELSE IF IsRaise(Head(outcomes)) THEN Head(outcomes)
    ELSE IF ~Head(outcomes).v THEN PyBool(FALSE)
    ELSE check_all_children_for_callable(Tail(outcomes))

\* is_valid_data_type that looks at the first child of a list only.
is_valid_data_type_first_child_only(value, accepted_types) ==
    IF value.kind # "list" THEN PyBool(isinstance(value, accepted_types))
    ELSE IF value.items = <<>> THEN PyBool(TRUE)
    ELSE PyBool(isinstance(value.items[1], accepted_types))

is_valid_data_type(value, accepted_types) ==
    IF value.kind # "list" THEN PyBool(isinstance(value, accepted_types))
    ELSE check_all_children_for_callable(
            [i \in 1..Len(value.items) |->
                PyBool(isinstance(value.items[i], accepted_types))])

\* The kinds of value that order against the int 0.
NumericKinds ==
    {"int", "bool", "float", "np.int64", "np.int8", "np.uint64", "np.float64"}

\* The number a numeric value compares as (True is 1, False is 0).
NumberOf(x) == IF x.kind \in {"bool", "np.bool_"} THEN (IF x.v THEN 1 ELSE 0) ELSE x.v

\* The lambda of is_positive_int with >= in place of >.
is_greater_than_or_equal(x) ==
    IF x.kind = "np.ndarray"
    THEN IF x.flat = <<>> THEN Raise("IndexError") ELSE PyBool(x.flat[1] >= 0)
    ELSE IF x.kind \in NumericKinds \cup {"np.bool_"} THEN PyBool(NumberOf(x) >= 0)
    ELSE Raise("TypeError")

\* lambda x: x.flat[0] > 0 if isinstance(x, np.ndarray) else x > 0
is_greater_than(x) ==
    IF x.kind = "np.ndarray"
    THEN IF x.flat = <<>> THEN Raise("IndexError") ELSE PyBool(x.flat[1] > 0)
    ELSE IF x.kind \in NumericKinds \cup {"np.bool_"} THEN PyBool(NumberOf(x) > 0)
    ELSE Raise("TypeError")

is_positive_int(value) ==
    IF value.kind = "list"
    THEN check_all_children_for_callable(
            [i \in 1..Len(value.items) |-> is_greater_than(value.items[i])])
    ELSE is_greater_than(value)

Digit == {"0", "1", "2", "3", "4", "5", "6", "7", "8", "9"}

\* Regular-expression matching by sets of positions: from each position of P,
\* the positions after n digits (\d{n}) ...
AfterDigits(s, P, n) ==
    {p + n : p \in {q \in P : /\ q + n - 1 <= Len(s)
                              /\ \A i \in q..(q + n - 1) : s[i] \in Digit}}

\* ... after the one character c ...
AfterChar(s, P, c) == {p + 1 : p \in {q \in P : q <= Len(s) /\ s[q] = c}}

\* ... after any number of digits (\d*, with backtracking) ...
AfterDigitStar(s, P) ==
    UNION {{e \in p..(Len(s) + 1) : \A i \in p..(e - 1) : s[i] \in Digit} : p \in P}

\* ... and whether the text at position p starts with lit.
LookingAt(s, p, lit) ==
    p + Len(lit) - 1 <= Len(s) /\ SubSeq(s, p, p + Len(lit) - 1) = lit

\* $ without re.MULTILINE: the end of the string, or just before a newline
\* that ends the string.
AtDollar(s, p) == p = Len(s) + 1 \/ (p = Len(s) /\ s[p] = LF)

\* iso8601.search(value) is not None, for
\* ^(\d{4})-(\d{2})-(\d{2})T(\d{2}):(\d{2}):(\d{2}(?:\.\d*)?)
\*  (((?!-00:00)(\+|-)(\d{2}):(\d{2})|Z){1})$
iso8601_search(s) ==
    LET year == AfterDigits(s, {1}, 4)
        month == AfterDigits(s, AfterChar(s, year, "-"), 2)
        day == AfterDigits(s, AfterChar(s, month, "-"), 2)
        hour == AfterDigits(s, AfterChar(s, day, "T"), 2)
        minute == AfterDigits(s, AfterChar(s, hour, ":"), 2)
        second == AfterDigits(s, AfterChar(s, minute, ":"), 2)
        fraction == second \cup AfterDigitStar(s, AfterChar(s, second, "."))
        allowed == {p \in fraction : ~LookingAt(s, p, <<"-", "0", "0", ":", "0", "0">>)}
        sign == AfterChar(s, allowed, "+") \cup AfterChar(s, allowed, "-")
        offset == AfterDigits(s, AfterChar(s, AfterDigits(s, sign, 2), ":"), 2)
        zone == offset \cup AfterChar(s, fraction, "Z")
    IN \E p \in zone : AtDollar(s, p)

\* The exception a failed check raises, by its message.
RaiseAt(exc, path) == [kind |-> "raise", exc |-> exc, path |-> path]

\* is_valid_data_field: None when every check passes, else what is raised.
is_valid_data_field(value, nxdl_type, path) ==
    IF nxdl_type \notin DOMAIN NEXUS_TO_PYTHON_DATA_TYPES THEN Raise("KeyError")
    ELSE LET accepted_types == NEXUS_TO_PYTHON_DATA_TYPES[nxdl_type]
             positive == is_positive_int(value)
         IN IF ~is_valid_data_type(value, accepted_types).v
            THEN RaiseAt("should be of Python type", path)
            ELSE IF nxdl_type = NX_POSINT /\ IsRaise(positive) THEN positive
            ELSE IF nxdl_type = NX_POSINT /\ ~positive.v
            THEN RaiseAt("should be a positive int", path)
            ELSE IF nxdl_type \in {ISO8601, NX_DATE_TIME}
            THEN IF value.kind # "str" THEN Raise("TypeError")
                 ELSE IF ~iso8601_search(value.s)
                 THEN RaiseAt("should be a timezone aware ISO8601 formatted str", path)
                 ELSE None
            ELSE None

-----------------------------------------------------------------------------
(* Template validator (helpers.py)                                         *)

\* The walk of nexus.get_node_at_nxdl_path down the segments of a schema
\* path: each segment is looked up with get_nxdl_child beneath the element
\* found so far, and a segment that is not found ends the walk with None.
RECURSIVE DescendNxdlPath(_, _)
DescendNxdlPath(elem, segments) ==
    IF segments = <<>> THEN elem
    ELSE LET child == get_nxdl_child(elem, Head(segments))
         IN IF child = None \/ IsRaise(child) THEN child
            ELSE DescendNxdlPath(child, Tail(segments))

get_node_at_nxdl_path(nxdl_path, elem) ==
    DescendNxdlPath(elem, Rest(Split(nxdl_path, "/")))

\* data[key], for a key of the dict
DataValue(data_dict, key) ==
    LET i == CHOOSE j \in 1..Len(data_dict) : data_dict[j].key = key
    IN data_dict[i].val

\* path_in_data_dict: (True, key) for the first key, in the dict's order,
\* whose schema path is nxdl_path; (False, "") when there is none.
path_in_data_dict(nxdl_path, data_dict) ==
    LET hits == {i \in 1..Len(data_dict) :
                    nxdl_path = convert_data_converter_dict_to_nxdl_path(data_dict[i].key)}
    IN IF hits = {} THEN <<FALSE, <<>>>>
       ELSE <<TRUE, data_dict[CHOOSE i \in hits : \A j \in hits : i <= j].key>>

NOT_FOUND == <<"<", "<", "N", "O", "T", "_", "F", "O", "U", "N", "D", ">", ">">>

\* check_for_optional_parent: the nearest parent classified optional or
\* recommended, as a str, or "<<NOT_FOUND>>".  A path without "/" is its own
\* parent, so the recursion does not end unless that path is itself optional.
RECURSIVE check_for_optional_parent(_, _)
check_for_optional_parent(path, root) ==
    LET parent_path == RSplitHead(path, "/")
        parent_nxdl_path == convert_data_converter_dict_to_nxdl_path(parent_path)
        elem == get_node_at_nxdl_path(parent_nxdl_path, root)
    IN IF parent_path = <<>> THEN PyStr(NOT_FOUND)
       ELSE IF IsRaise(elem) THEN elem
       ELSE IF get_required_string(elem) \in {"<<OPTIONAL>>", "<<RECOMMENDED>>"}
       THEN PyStr(parent_path)
       ELSE IF parent_path = path THEN Raise("RecursionError")
       ELSE check_for_optional_parent(parent_path, root)

\* check_are_children_set: some key whose schema path contains the parent's
\* schema path as a substring has a value that is not None.
check_are_children_set(optional_parent_path, data_dict) ==
    LET parent_nxdl == convert_data_converter_dict_to_nxdl_path(optional_parent_path)
    IN \E i \in 1..Len(data_dict) :
          /\ Contains(convert_data_converter_dict_to_nxdl_path(data_dict[i].key), parent_nxdl)
          /\ data_dict[i].val # None

\* The condition of lines 208-209 with RECOMMENDED enforced like REQUIRED.
is_missing_required_or_recommended(elem, is_path_in_data_dict, value) ==
    /\ get_required_string(elem) \in {"<<REQUIRED>>", "<<RECOMMENDED>>"}
    /\ (~is_path_in_data_dict \/ value = None)

\* The condition of lines 208-209: the path is required and the dict has no
\* value for it.
is_missing_required(elem, is_path_in_data_dict, value) ==
    /\ get_required_string(elem) = "<<REQUIRED>>"
    /\ (~is_path_in_data_dict \/ value = None)

\* Lines 218-223: the checks of a value that is there, given what
\* is_valid_data_field did (line 219).
CheckValue(value, elem, renamed_path, field_check) ==
    IF IsRaise(field_check) THEN field_check
    ELSE IF ~is_value_valid_element_of_enum(value, elem)[1]
    THEN RaiseAt("should be one of the following strings", renamed_path)
    ELSE None

\* The test of line 203 made on the last character of the name.
IsAttributeEntry_last_character(entry_name) == entry_name[Len(entry_name)] = "@"

\* entry_name[0] == "@" (line 203)
IsAttributeEntry(entry_name) == entry_name[1] = "@"

\* Lines 202-223, given what path_in_data_dict (line 200),
\* get_node_at_nxdl_path (line 206) and check_for_optional_parent (line 211)
\* return: each is used only where the code has called it.
LoopBody(path, data_dict, found, elem, optional_parent) ==
    LET is_path_in_data_dict == found[1]
        renamed_path == found[2]
        slash == RFind(path, "/")
        entry_name == get_name_from_data_dict_entry(From(path, slash + 1))
        value == DataValue(data_dict, renamed_path)
        missing == is_missing_required(elem, is_path_in_data_dict, value)
        nxdl_type == IF "type" \in DOMAIN elem.attrib THEN elem.attrib.type
                     ELSE NXDL_TYPE_UNAVAILABLE
    IN IF slash = 0 THEN Raise("ValueError")
       ELSE IF entry_name = <<>> THEN Raise("IndexError")
       ELSE IF IsAttributeEntry(entry_name) THEN None
       ELSE IF IsRaise(elem) THEN elem
       ELSE IF missing /\ IsRaise(optional_parent) THEN optional_parent
       ELSE IF missing /\ (\/ optional_parent = PyStr(NOT_FOUND)
                           \/ check_are_children_set(optional_parent.s, data_dict))
       THEN RaiseAt("is required and hasn't been supplied by the reader",
                    IF renamed_path # <<>> THEN renamed_path ELSE path)
       ELSE IF elem = None THEN Raise("AttributeError")
       ELSE IF is_path_in_data_dict /\ value # None
       THEN CheckValue(value, elem, renamed_path,
                       is_valid_data_field(value, nxdl_type, renamed_path))
       ELSE None

\* The body of the for loop of validate_data_dict for one path of the
\* template: None when the iteration ends without raising (by "continue" or
\* at the end of the body), else what it raises.
ValidatePath(path, data_dict, root) ==
    LoopBody(path, data_dict,
             path_in_data_dict(convert_data_converter_dict_to_nxdl_path(path), data_dict),
             get_node_at_nxdl_path(convert_data_converter_dict_to_nxdl_path(path), root),
             check_for_optional_parent(path, root))

-----------------------------------------------------------------------------
(* Inputs of the helper calls                                              *)

OptionalityFlags == {"optional", "recommended", "required"}

\* The attribute dictionary of an element that carries the chosen optionality
\* attributes: flags maps each of optional, recommended, required to "true",
\* "false" or "absent", and minOccurs is "0", "1" or "absent".
OptionalityAttrib(flags, minOccurs) ==
    LET keys == {k \in OptionalityFlags : flags[k] # "absent"}
                \cup (IF minOccurs # "absent" THEN {"minOccurs"} ELSE {})
    IN [k \in keys |-> IF k = "minOccurs" THEN minOccurs ELSE flags[k]]

\* A field with every combination of the optionality attributes, in an
\* application definition and in a base class; and no element at all.
ClassifyInputs ==
    {None} \cup
    {Elem("field", OptionalityAttrib(flags, m), base, FALSE, <<>>) :
        flags \in [OptionalityFlags -> {"absent", "true", "false"}],
        m \in {"absent", "0", "1"},
        base \in {AppBase, BcBase}}

\* Fields and attributes belongs_to is called with besides those of the
\* documents: names that are all uppercase, that end as a reserved word ends,
\* that are a reserved word, and a nameType other than "any".
NamedInputs ==
    {Elem(tag, [name |-> name, nameType |-> nameType], AppBase, FALSE, <<>>) :
        tag \in {"field", "attribute"},
        name \in {<<"D", "A">>, <<"D", "c">>, DOC, <<"X", "d", "o", "c">>},
        nameType \in {"any", "specified"}}

BelongsToInputs ==
    NamedInputs \cup {e \in AllElements : e.tag \in {"field", "attribute"}}

\* The names looked up under an element.
LookupNames ==
    {NXe, NXi, NXix, NXd, DOC, ENUMERATION,
     <<"t">>, <<"s">>, <<"o">>, <<"b">>, <<"c">>, <<"y">>, <<"q">>, <<"m", "u">>,
     <<"@", "v">>}

\* Scalar values of the Python and numpy classes the type table names, and of
\* some it does not.  An array is given by its elements in flattened order.
ScalarValues ==
    {PyStr(<<"a">>), PyStr(<<"c">>), PyStr(<<>>),
     PyInt(0), PyInt(1), PyInt(-2), PyBool(TRUE), PyFloat(1),
     NdArray(<<5, -1>>), NdArray(<<0, 3>>), NdArray(<<>>),
     NpScalar("np.int64", 3), NpScalar("np.int64", 0), NpScalar("np.uint64", 2),
     NpScalar("np.float64", 1), Bytes}

\* What a list may hold: a scalar of each class that the checks tell apart
\* (with the numbers on both sides of zero), None and a list.
ListElements ==
    {PyStr(<<"a">>), PyInt(0), PyInt(1), PyInt(-2), PyBool(TRUE), PyFloat(1),
     NdArray(<<5, -1>>), NdArray(<<0, 3>>), NdArray(<<>>),
     NpScalar("np.int64", 3), NpScalar("np.uint64", 2),
     None, PyList(<<PyInt(1)>>)}

ListValues ==
    {PyList(items) : items \in UNION {[1..n -> ListElements] : n \in 0..MaxList}}

FieldValues == ScalarValues \cup ListValues

\* Timestamp strings: a date and time, a fraction, an offset and what follows.
TimestampDates ==
    {<<"2", "0", "2", "2", "-", "0", "1", "-", "2", "2", "T",
       "1", "2", ":", "1", "4", ":", "1", "2">>,
     <<"2", "0", "2", "2", "-", "0", "1", "-", "2", "2", " ",
       "1", "2", ":", "1", "4", ":", "1", "2">>,
     <<"2", "2", "-", "0", "1", "-", "2", "2", "T",
       "1", "2", ":", "1", "4", ":", "1", "2">>,
     <<"2", "0", "2", "2", "-", "0", "1", "-", "2", "2", "T",
       "1", "2", ":", "1", "4">>}

TimestampFractions ==
    {<<>>, <<".">>, <<".", "0", "5", "0", "1", "8">>, <<".", "5", "x">>}

TimestampOffsets ==
    {<<>>, <<"Z">>, <<"z">>, <<"Z", "Z">>,
     <<"+", "0", "2", ":", "0", "0">>, <<"-", "0", "2", ":", "0", "0">>,
     <<"+", "0", "0", ":", "0", "0">>, <<"-", "0", "0", ":", "0", "0">>,
     <<"-", "0", "0", ":", "0", "1">>, <<"+", "0", "2", "0", "0">>,
     <<"Z", "+", "0", "2", ":", "0", "0">>}

TimestampEnds == {<<>>, <<LF>>, <<" ">>, <<LF, LF>>}

TimestampValues ==
    {PyStr(d \o f \o o \o e) :
        d \in TimestampDates, f \in TimestampFractions,
        o \in TimestampOffsets, e \in TimestampEnds}

\* A type tag that the type table does not hold.
NX_COMPLEX == <<"N", "X", "_", "C", "O", "M", "P", "L", "E", "X">>

\* A field whose enumeration has a single item.
OneItemEnumField ==
    Elem("field", [name |-> <<"u">>], AppBase, FALSE, <<EnumElem(AppBase, <<<<"a">>>>)>>)

\* The elements the enumeration check is called with: none, a field without
\* an enumeration, and fields with an enumeration of three items and of one.
EnumInputs ==
    {None, OneItemEnumField}
    \cup {e \in AllElements : /\ e.tag = "field" /\ e.base = AppBase
                              /\ e.attrib.name \in {<<"t">>, <<"m">>}}

\* The path of the value, which the checks only put in their messages.
ValuePath == <<"/", "N", "X", "e", "[", "e", "]", "/", "f">>

\* A data-dictionary path from its segments.
RECURSIVE JoinPath(_)
JoinPath(segments) ==
    IF segments = <<>> THEN <<>>
    ELSE <<"/">> \o Head(segments) \o JoinPath(Tail(segments))

\* The segment CLASS[name]
Named(class, name) == class \o <<"[">> \o name \o <<"]">>

\* Segments of the paths the conversions are called with: plain, with a
\* suggested name, with two bracketed parts, with nothing before the bracket,
\* with a bracket that is not opened or not closed, empty, and with a line
\* feed in the suggested name (the part before the bracket is a name of the
\* schema, which holds none).
ConversionSegments ==
    {<<"a">>, <<"B", "[", "c", "]">>, <<"B", "[", "c", "]", "[", "d", "]">>,
     <<"[", "c", "]">>, <<"b", "]">>, <<"a", "[">>, <<>>,
     <<"B", "[", "c", LF, "d", "]">>}

\* The paths of those segments, each with its leading "/" and without it: the
\* empty path and the paths that end in "/" are among them.
ConversionPaths ==
    LET slashed == {JoinPath(q) :
                      q \in UNION {[1..n -> ConversionSegments] : n \in 0..MaxSegments}}
    IN slashed \cup {Rest(p) : p \in slashed}

\* Declared paths: under application definition A, t is required with no
\* optional ancestor, r recommended, s required beneath the optional NXi, y
\* required beneath the required NXd beneath NXi, o optional, @v an attribute.
PathT == JoinPath(<<Named(NXe, <<"e">>), <<"t">>>>)

PathR == JoinPath(<<Named(NXe, <<"e">>), <<"r">>>>)

PathS == JoinPath(<<Named(NXe, <<"e">>), Named(NXi, <<"i">>), <<"s">>>>)

PathY == JoinPath(<<Named(NXe, <<"e">>), Named(NXi, <<"i">>), Named(NXd, <<"d">>), <<"y">>>>)

PathO == JoinPath(<<Named(NXe, <<"e">>), Named(NXi, <<"i">>), <<"o">>>>)

PathV == JoinPath(<<Named(NXe, <<"e">>), <<"@", "v">>>>)

\* t under another suggested name of the entry
PathT2 == JoinPath(<<Named(NXe, <<"a">>), <<"t">>>>)

\* x in NXix, the sibling of NXi whose class name extends NXi's
PathX == JoinPath(<<Named(NXe, <<"e">>), Named(NXix, <<"j">>), <<"x">>>>)

\* m, whose enumeration is a, b, c and which declares no type
PathM == JoinPath(<<Named(NXe, <<"e">>), <<"m">>>>)

TemplatePaths == {PathT, PathR, PathS, PathY, PathO, PathV, PathM}

\* The entries a populated dict is made of.
DataItems ==
    {[key |-> PathT, val |-> None], [key |-> PathT, val |-> PyStr(<<"a">>)],
     [key |-> PathT, val |-> PyInt(1)],
     [key |-> PathT2, val |-> PyStr(<<"a">>)],
     [key |-> PathS, val |-> PyFloat(1)],
     [key |-> PathO, val |-> None], [key |-> PathO, val |-> PyFloat(1)],
     [key |-> PathX, val |-> PyStr(<<"a">>)],
     [key |-> PathV, val |-> PyInt(1)],
     [key |-> PathM, val |-> PyInt(1)]}

\* The sequences over S of at most n members, none of them twice.
SeqsWithoutRepeat(S, n) ==
    UNION {{q \in [1..k -> S] : \A i, j \in 1..k : i # j => q[i] # q[j]} : k \in 0..n}

\* Templates: declared paths in any order, each once (they are dict keys).
Templates == SeqsWithoutRepeat(TemplatePaths, MaxTemplate)

\* The place of a key in the order the dicts are built in.  The code reads
\* the order of a dict only through the first key that has a given schema
\* path (path_in_data_dict), so keys of different schema paths are inserted
\* in one order, and keys of the same schema path in both.
InsertionRank(key) ==
    CASE key \in {PathT, PathT2} -> 1
      [] key = PathS -> 2
      [] key = PathO -> 3
      [] key = PathX -> 4
      [] key = PathV -> 5
      [] key = PathM -> 6

\* Populated dicts: entries in insertion order, each key once.
DataDicts ==
    {d \in SeqsWithoutRepeat(DataItems, MaxData) :
        \A i, j \in 1..Len(d) :
            i < j => /\ d[i].key # d[j].key
                     /\ InsertionRank(d[i].key) <= InsertionRank(d[j].key)}

\* The paths the optional-ancestor walk is called with: the declared paths
\* and keys of the dicts, and paths that do not begin with "/": one segment,
\* two segments, and a declared path less its leading "/".
WalkPaths ==
    TemplatePaths \cup {PathT2, PathX}
    \cup {<<"t">>, Rest(PathT), Rest(PathS)}

\* The dicts validation is called with under a root.  Without a root the
\* call fails before it reads the template or the dict (helpers.py:195-196),
\* so the dicts of at most one entry stand for all.
DataDictsFor(root) ==
    IF root = None THEN {d \in DataDicts : Len(d) <= 1} ELSE DataDicts

-----------------------------------------------------------------------------
(* The state machine                                                       *)

NoCall == [fn |-> "none"]

NoResult == [kind |-> "none"]

NoPath == [path |-> <<>>, outcome |-> NoResult]

Init ==
    /\ pc = "idle"
    /\ call = NoCall
    /\ nxdl_root = None
    /\ template = <<>>
    /\ data = <<>>
    /\ idx = 0
    /\ last = NoPath
    /\ result = NoResult

\* A call of get_required_string on one element.
Call_get_required_string ==
    /\ pc = "idle"
    /\ \E e \in ClassifyInputs \cup AllElements :
          call' = [fn |-> "get_required_string", elem |-> e,
                   ret |-> get_required_string(e)]
    /\ pc' = "returned"
    /\ UNCHANGED <<nxdl_root, template, data, idx, last, result>>

\* A call of get_nxdl_child on one element of the documents and one name.
Call_get_nxdl_child ==
    /\ pc = "idle"
    /\ \E e \in AllElements, name \in LookupNames :
          LET t == get_nxdl_child_trace(e, name)
          IN call' = [fn |-> "get_nxdl_child", elem |-> e, name |-> name,
                      ret |-> t.ret, bc |-> t.bc]
    /\ pc' = "returned"
    /\ UNCHANGED <<nxdl_root, template, data, idx, last, result>>

\* A call of convert_data_converter_dict_to_nxdl_path on one path; it returns
\* a str.
Call_convert_data_converter_dict_to_nxdl_path ==
    /\ pc = "idle"
    /\ \E path \in ConversionPaths :
          call' = [fn |-> "convert_data_converter_dict_to_nxdl_path", path |-> path,
                   ret |-> PyStr(convert_data_converter_dict_to_nxdl_path(path))]
    /\ pc' = "returned"
    /\ UNCHANGED <<nxdl_root, template, data, idx, last, result>>

\* A call of convert_data_dict_path_to_hdf5_path on one path.
Call_convert_data_dict_path_to_hdf5_path ==
    /\ pc = "idle"
    /\ \E path \in ConversionPaths :
          call' = [fn |-> "convert_data_dict_path_to_hdf5_path", path |-> path,
                   ret |-> PyStr(convert_data_dict_path_to_hdf5_path(path))]
    /\ pc' = "returned"
    /\ UNCHANGED <<nxdl_root, template, data, idx, last, result>>

\* A call of belongs_to on one field or attribute and one name.
Call_belongs_to ==
    /\ pc = "idle"
    /\ \E e \in BelongsToInputs, name \in LookupNames :
          call' = [fn |-> "belongs_to", elem |-> e, name |-> name,
                   ret |-> belongs_to(e, name)]
    /\ pc' = "returned"
    /\ UNCHANGED <<nxdl_root, template, data, idx, last, result>>

\* A call of is_valid_data_field on one value and one type tag.
Call_is_valid_data_field ==
    /\ pc = "idle"
    /\ \E t \in NexusTypes \cup {NX_COMPLEX} :
       \E value \in FieldValues
                    \cup (IF t \in {ISO8601, NX_DATE_TIME} THEN TimestampValues ELSE {}) :
          call' = [fn |-> "is_valid_data_field", value |-> value, nxdl_type |-> t,
                   ret |-> is_valid_data_field(value, t, ValuePath)]
    /\ pc' = "returned"
    /\ UNCHANGED <<nxdl_root, template, data, idx, last, result>>

\* A call of is_value_valid_element_of_enum on one value and one element.
Call_is_value_valid_element_of_enum ==
    /\ pc = "idle"
    /\ \E value \in FieldValues, e \in EnumInputs :
          call' = [fn |-> "is_value_valid_element_of_enum", value |-> value, elem |-> e,
                   ret |-> is_value_valid_element_of_enum(value, e)]
    /\ pc' = "returned"
    /\ UNCHANGED <<nxdl_root, template, data, idx, last, result>>

\* validate_data_dict with the test for the schema root made inside the loop,
\* so that an empty template never meets it.
Validate_Begin_root_tested_in_loop ==
    /\ pc = "idle"
    /\ \E root \in AppDefinitions \cup {None}, t \in Templates :
       \E d \in DataDictsFor(root) :
          /\ nxdl_root' = root
          /\ template' = t
          /\ data' = d
          /\ IF root = None /\ t # <<>>
             THEN /\ pc' = "raised"
                  /\ result' = Raise("The NXDL file hasn't been loaded.")
                  /\ idx' = 0
             ELSE /\ pc' = "loop"
                  /\ result' = NoResult
                  /\ idx' = 1
    /\ UNCHANGED <<call, last>>

\* validate_data_dict is called: it raises when there is no schema root, and
\* otherwise enters its loop over the template.
Validate_Begin ==
    /\ pc = "idle"
    /\ \E root \in AppDefinitions \cup {None}, t \in Templates :
       \E d \in DataDictsFor(root) :
          /\ nxdl_root' = root
          /\ template' = t
          /\ data' = d
          /\ IF root = None
             THEN /\ pc' = "raised"
                  /\ result' = Raise("The NXDL file hasn't been loaded.")
                  /\ idx' = 0
             ELSE /\ pc' = "loop"
                  /\ result' = NoResult
                  /\ idx' = 1
    /\ UNCHANGED <<call, last>>

\* The loop with an error noted and the iteration carried on instead of the
\* error being raised.
Validate_Path_keeps_going ==
    /\ pc = "loop"
    /\ idx <= Len(template)
    /\ LET outcome == ValidatePath(template[idx], data, nxdl_root)
       IN /\ last' = [path |-> template[idx], outcome |-> outcome]
          /\ result' = IF IsRaise(outcome) THEN outcome ELSE result
          /\ pc' = IF IsRaise(outcome) /\ idx = Len(template) THEN "raised" ELSE "loop"
          /\ idx' = IF IsRaise(outcome) /\ idx = Len(template) THEN idx ELSE idx + 1
    /\ UNCHANGED <<call, nxdl_root, template, data>>

\* One iteration of the loop: the body for template[idx].
Validate_Path ==
    /\ pc = "loop"
    /\ idx <= Len(template)
    /\ LET outcome == ValidatePath(template[idx], data, nxdl_root)
       IN /\ last' = [path |-> template[idx], outcome |-> outcome]
          /\ IF IsRaise(outcome)
             THEN pc' = "raised" /\ result' = outcome /\ idx' = idx
             ELSE pc' = "loop" /\ result' = result /\ idx' = idx + 1
    /\ UNCHANGED <<call, nxdl_root, template, data>>

\* The loop is over: return True.
Validate_Return ==
    /\ pc = "loop"
    /\ idx > Len(template)
    /\ pc' = "done"
    /\ result' = PyBool(TRUE)
    /\ UNCHANGED <<call, nxdl_root, template, data, idx, last>>

\* check_for_optional_parent is called on a path, as validate_data_dict calls
\* it (line 211) or on its own.
Call_check_for_optional_parent ==
    /\ pc = "idle"
    /\ \E path \in WalkPaths, root \in AppDefinitions :
          call' = [fn |-> "check_for_optional_parent", path |-> path, root |-> root,
                   at |-> path, depth |-> 0, ret |-> NoResult]
    /\ pc' = "walk"
    /\ UNCHANGED <<nxdl_root, template, data, idx, last, result>>

\* One frame of check_for_optional_parent (lines 167-178) on the path call.at:
\* it returns, raises, or calls itself on the parent path (line 178); a call
\* beyond the depth the interpreter allows raises RecursionError.
Recurse_check_for_optional_parent ==
    /\ pc = "walk"
    /\ LET parent_path == RSplitHead(call.at, "/")
           elem == get_node_at_nxdl_path(
                       convert_data_converter_dict_to_nxdl_path(parent_path), call.root)
           return(value) == /\ call' = [call EXCEPT !.ret = value, !.depth = @ + 1]
                            /\ pc' = "returned"
       IN IF call.depth = MaxRecursion
          THEN /\ call' = [call EXCEPT !.ret = Raise("RecursionError")]
               /\ pc' = "returned"
          ELSE IF parent_path = <<>> THEN return(PyStr(NOT_FOUND))
          ELSE IF IsRaise(elem) THEN return(elem)
          ELSE IF get_required_string(elem) \in {"<<OPTIONAL>>", "<<RECOMMENDED>>"}
          THEN return(PyStr(parent_path))
          ELSE /\ call' = [call EXCEPT !.at = parent_path, !.depth = @ + 1]
               /\ pc' = "walk"
    /\ UNCHANGED <<nxdl_root, template, data, idx, last, result>>

Next ==
    \/ Validate_Begin
    \/ Validate_Path
    \/ Validate_Return
    \/ Call_get_required_string
    \/ Call_get_nxdl_child
    \/ Call_belongs_to
    \/ Call_convert_data_converter_dict_to_nxdl_path
    \/ Call_convert_data_dict_path_to_hdf5_path
    \/ Call_is_valid_data_field
    \/ Call_is_value_valid_element_of_enum
    \/ Call_check_for_optional_parent
    \/ Recurse_check_for_optional_parent

Spec == Init /\ [][Next]_vars

-----------------------------------------------------------------------------
(* Claims                                                                  *)

Classifications ==
    {"<<REQUIRED>>", "<<OPTIONAL>>", "<<RECOMMENDED>>", "<<NOT IN SCHEMA>>"}

\* The element carries attribute k with value v.
HasAttr(e, k, v) == k \in DOMAIN e.attrib /\ e.attrib[k] = v

\* The element carries none of the optionality attributes.
NoOptionality(e) ==
    DOMAIN e.attrib \cap {"optional", "recommended", "required", "minOccurs"} = {}

IsElement(x) == x.kind = "Element"

\* C2: get_required_string returns exactly one of the four classifications,
\* chosen by the first rule that matches, in the order: no element -> NOT IN
\* SCHEMA; optional="true" or minOccurs="0" -> OPTIONAL; recommended="true" ->
\* RECOMMENDED; base-class origin or required="false" -> OPTIONAL; otherwise
\* REQUIRED.
C2_ClassifyFirstMatchWins ==
    call.fn = "get_required_string" =>
        LET e == call.elem
            r == call.ret
            isNull == e = None
            opt == ~isNull /\ (HasAttr(e, "optional", "true") \/ HasAttr(e, "minOccurs", "0"))
            rec == ~isNull /\ HasAttr(e, "recommended", "true")
            dflt == ~isNull /\ (e.base = BcBase \/ HasAttr(e, "required", "false"))
        IN /\ r \in Classifications
           /\ isNull => r = "<<NOT IN SCHEMA>>"
           /\ opt => r = "<<OPTIONAL>>"
           /\ (~opt /\ rec) => r = "<<RECOMMENDED>>"
           /\ (~opt /\ ~rec /\ dflt) => r = "<<OPTIONAL>>"
           /\ (~isNull /\ ~opt /\ ~rec /\ ~dflt) => r = "<<REQUIRED>>"

\* C2 witness: an element with optional="true" and recommended="true" was
\* classified, and came out OPTIONAL.
C2_Witness ==
    /\ call.fn = "get_required_string"
    /\ call.elem # None
    /\ HasAttr(call.elem, "optional", "true")
    /\ HasAttr(call.elem, "recommended", "true")
    /\ call.ret = "<<OPTIONAL>>"

\* C3: looked up beneath an element of an application definition, a field with
\* no optionality attribute classifies REQUIRED when the application
\* definition declares it there, and OPTIONAL when it is declared only in the
\* base-class document.
C3_BaseClassDefaultAsymmetry ==
    (call.fn = "get_nxdl_child" /\ call.elem.base = AppBase) =>
        LET own == get_own_nxdl_child(call.elem, call.name)
        IN /\ (own # None /\ own.tag = "field" /\ NoOptionality(own)) =>
                 (IsElement(call.ret) /\ get_required_string(call.ret) = "<<REQUIRED>>")
           /\ (own = None /\ IsElement(call.ret) /\ call.ret.tag = "field"
                 /\ NoOptionality(call.ret)) =>
                 get_required_string(call.ret) = "<<OPTIONAL>>"

\* C4: the lookup of one name is a two-level search in which the local
\* definition wins: a matching direct child is returned without consulting the
\* base class; the base-class document of the element's class is searched only
\* when no direct child matches and the class is not primitive (third
\* character "_"); when neither level matches, or the class is primitive, the
\* result is None.  (Stated for classes whose base-class document exists.)
C4_LocalDefinitionWins ==
    call.fn = "get_nxdl_child" =>
        LET own == get_own_nxdl_child(call.elem, call.name)
            cls == get_nx_class(call.elem)
            primitive == cls[3] = "_"
        IN /\ own # None => (call.ret = own /\ call.bc = <<>>)
           /\ (own = None /\ primitive) => (call.ret = None /\ call.bc = <<>>)
           /\ (own = None /\ ~primitive /\ cls \in DOMAIN BaseClassDocuments) =>
                 /\ call.bc = cls
                 /\ call.ret = get_own_nxdl_child(BaseClassDocuments[cls], call.name)

\* The value is of a representation accepted for the NeXus type.
AcceptedFor(value, nxdl_type) ==
    \E cls \in NEXUS_TO_PYTHON_DATA_TYPES[nxdl_type] : cls \in PyClasses(value)

IsTypeMismatch(x) == IsRaise(x) /\ x.exc = "should be of Python type"

\* C7: for a known NeXus type, the type check fails with the type-mismatch
\* error if and only if the value is not accepted for the type or, when the
\* value is a list, at least one of its elements is not accepted.
C7_TypeCheckEveryElement ==
    (call.fn = "is_valid_data_field" /\ call.nxdl_type \in NexusTypes) =>
        LET v == call.value
            bad == IF v.kind = "list"
                   THEN \E i \in 1..Len(v.items) : ~AcceptedFor(v.items[i], call.nxdl_type)
                   ELSE ~AcceptedFor(v, call.nxdl_type)
        IN IsTypeMismatch(call.ret) <=> bad

\* C7 witness: a list whose first element is accepted and whose second is not
\* failed the type check.
C7_Witness ==
    /\ call.fn = "is_valid_data_field"
    /\ call.nxdl_type = NX_INT
    /\ call.value.kind = "list"
    /\ Len(call.value.items) = 2
    /\ AcceptedFor(call.value.items[1], NX_INT)
    /\ ~AcceptedFor(call.value.items[2], NX_INT)
    /\ IsTypeMismatch(call.ret)

\* The element declares an enumeration: it has an <enumeration> child.
DeclaresEnumeration(e) ==
    \E i \in 1..Len(e.children) : e.children[i].tag = "enumeration"

\* The declared entries of the element's enumeration.
DeclaredEntries(e) ==
    LET enum == CHOOSE c \in {e.children[i] : i \in 1..Len(e.children)} :
                    c.tag = "enumeration"
    IN [i \in 1..Len(enum.children) |-> enum.children[i].attrib.value]

\* C8: for an element that declares an enumeration the value is reported
\* invalid exactly when it is a list, or the empty string, or not among all
\* but the last declared entries; for no element, or an element without an
\* enumeration, every value is valid.
C8_EnumAllButLast ==
    call.fn = "is_value_valid_element_of_enum" =>
        LET v == call.value
            e == call.elem
            valid == call.ret[1]
        IN IF e = None \/ ~DeclaresEnumeration(e) THEN valid
           ELSE LET entries == DeclaredEntries(e)
                    among == /\ v.kind = "str"
                             /\ \E i \in 1..(Len(entries) - 1) : entries[i] = v.s
                IN ~valid <=> (v.kind = "list" \/ v = PyStr(<<>>) \/ ~among)

\* C8 witness: the last declared entry itself was checked, and rejected.
C8_Witness ==
    /\ call.fn = "is_value_valid_element_of_enum"
    /\ call.elem # None
    /\ DeclaresEnumeration(call.elem)
    /\ Len(DeclaredEntries(call.elem)) = 3
    /\ call.value = PyStr(DeclaredEntries(call.elem)[3])
    /\ call.ret[1] = FALSE

\* The string is a date and time YYYY-MM-DDTHH:MM:SS.
IsDateTimeForm(s) ==
    /\ Len(s) = 19
    /\ \A i \in 1..19 :
          CASE i \in {5, 8} -> s[i] = "-"
            [] i = 11 -> s[i] = "T"
            [] i \in {14, 17} -> s[i] = ":"
            [] OTHER -> s[i] \in Digit

\* The string is a fractional part: a "." and digits.
IsFractionForm(s) ==
    Len(s) >= 1 /\ s[1] = "." /\ \A i \in 2..Len(s) : s[i] \in Digit

\* The string is an offset: Z, +HH:MM, or -HH:MM other than -00:00.
IsOffsetForm(s) ==
    \/ s = <<"Z">>
    \/ /\ Len(s) = 6
       /\ s[1] \in {"+", "-"}
       /\ s[2] \in Digit /\ s[3] \in Digit /\ s[4] = ":"
       /\ s[5] \in Digit /\ s[6] \in Digit
       /\ s # <<"-", "0", "0", ":", "0", "0">>

\* The string is a date and time, an optional fraction and exactly one offset.
IsTimestampForm(s) ==
    \E i \in 0..Len(s), j \in 0..Len(s) :
        /\ i <= j
        /\ IsDateTimeForm(SubSeq(s, 1, i))
        /\ (i = j \/ IsFractionForm(SubSeq(s, i + 1, j)))
        /\ IsOffsetForm(SubSeq(s, j + 1, Len(s)))

\* C9: for the types ISO8601 and NX_DATE_TIME a string passes the timestamp
\* check if and only if it has the form YYYY-MM-DDTHH:MM:SS, an optional
\* fraction, and exactly one offset Z, +HH:MM or -HH:MM other than -00:00;
\* any other string fails with the format error.
C9_TimestampForm ==
    (/\ call.fn = "is_valid_data_field"
     /\ call.nxdl_type \in {ISO8601, NX_DATE_TIME}
     /\ call.value.kind = "str") =>
        IF IsTimestampForm(call.value.s) THEN call.ret = None
        ELSE /\ IsRaise(call.ret)
             /\ call.ret.exc = "should be a timezone aware ISO8601 formatted str"

\* One element under the positivity rule: an array by its first element in
\* flattened order, anything else by its own value.
IsPositiveByRule(x) ==
    IF x.kind = "np.ndarray" THEN Len(x.flat) >= 1 /\ x.flat[1] > 0
    ELSE NumberOf(x) > 0

\* C10: for NX_POSINT a scalar passes the positivity check if and only if it
\* is strictly greater than zero, an array if and only if its first element
\* in flattened order is, whatever its later elements, and a list if and only
\* if every one of its elements passes by these rules.  (Of the values that
\* passed the type check.)
C10_PositiveFirstElement ==
    (/\ call.fn = "is_valid_data_field"
     /\ call.nxdl_type = NX_POSINT
     /\ ~IsTypeMismatch(call.ret)) =>
        LET v == call.value
            passes == IF v.kind = "list"
                      THEN \A i \in 1..Len(v.items) : IsPositiveByRule(v.items[i])
                      ELSE IsPositiveByRule(v)
        IN call.ret = None <=> passes

\* C10 witness: an array whose first element is positive and whose second is
\* negative passed.
C10_Witness ==
    /\ call.fn = "is_valid_data_field"
    /\ call.nxdl_type = NX_POSINT
    /\ call.value.kind = "np.ndarray"
    /\ Len(call.value.flat) = 2
    /\ call.value.flat[1] > 0
    /\ call.value.flat[2] < 0
    /\ call.ret = None

\* The segments of a data-dictionary path, and of its schema path.
PathSegments(path) == Rest(Split(path, "/"))

SchemaSegments(path) ==
    LET segs == PathSegments(path)
    IN [i \in 1..Len(segs) |-> convert_data_converter_entry_to_nxdl_path_entry(segs[i])]

\* The element of the schema a data-dictionary path resolves to, and its
\* classification.
ElementAt(path) ==
    get_node_at_nxdl_path(convert_data_converter_dict_to_nxdl_path(path), nxdl_root)

Resolves(path) == ~IsRaise(ElementAt(path))

ClassOf(path) == get_required_string(ElementAt(path))

\* The path is an attribute: the name of its final segment begins with "@".
IsAttributePath(path) ==
    LET segs == PathSegments(path)
        name == get_name_from_data_dict_entry(segs[Len(segs)])
    IN name # <<>> /\ name[1] = "@"

\* The ancestors of a path, by the number of leading segments they keep, that
\* are classified optional or recommended.
OptionalAncestors(path) ==
    {k \in 1..(Len(PathSegments(path)) - 1) :
        LET anc == JoinPath(SubSeq(PathSegments(path), 1, k))
        IN Resolves(anc) /\ ClassOf(anc) \in {"<<OPTIONAL>>", "<<RECOMMENDED>>"}}

\* Some entry of the dict with a value that is not None lies beneath the
\* first k segments of path, segment by segment in schema notation.
HasPopulatedDescendant(path, k) ==
    \E i \in 1..Len(data) :
        /\ data[i].val # None
        /\ Len(SchemaSegments(data[i].key)) > k
        /\ SubSeq(SchemaSegments(data[i].key), 1, k) = SubSeq(SchemaSegments(path), 1, k)

\* The indices of the entries of the dict whose schema path is that of path.
Matches(path) ==
    {i \in 1..Len(data) : SchemaSegments(data[i].key) = SchemaSegments(path)}

\* The dict has no entry for the path, or the entry matched (the first, in the
\* dict's order) holds None.
Unsupplied(path) ==
    \/ Matches(path) = {}
    \/ data[CHOOSE i \in Matches(path) : \A j \in Matches(path) : i <= j].val = None

\* No entry for the path holds a value.
NoPopulatedValue(path) == \A i \in Matches(path) : data[i].val = None

IsMissingRequired(x) ==
    IsRaise(x) /\ x.exc = "is required and hasn't been supplied by the reader"

\* An iteration of the loop has examined a path.
Examined == last # NoPath

\* C1: for a declared non-attribute path classified REQUIRED that has no
\* matching entry, or whose matched value is None, validation fails with the
\* missing-required error if no ancestor is optional or recommended or if the
\* nearest such ancestor has a descendant entry with a value that is not None;
\* if that ancestor has no populated descendant, the path is not reported and
\* validation continues.
C1_MissingRequiredUnlessEmptyOptionalBranch ==
    (/\ Examined
     /\ ~IsAttributePath(last.path)
     /\ Resolves(last.path)
     /\ ClassOf(last.path) = "<<REQUIRED>>"
     /\ Unsupplied(last.path)) =>
        LET anc == OptionalAncestors(last.path)
            nearest == CHOOSE k \in anc : \A j \in anc : j <= k
        IN IF anc = {} \/ HasPopulatedDescendant(last.path, nearest)
           THEN IsMissingRequired(last.outcome) /\ pc = "raised"
           ELSE last.outcome = None /\ pc # "raised"

\* What C5 says of the path the loop has just examined, given its
\* classification: exempt tells whether the failure of a REQUIRED path is
\* not asserted of it.
PresenceRule(class, exempt) ==
    /\ class \in {"<<OPTIONAL>>", "<<RECOMMENDED>>"} =>
          (last.outcome = None /\ pc # "raised")
    /\ (class = "<<REQUIRED>>" /\ ~exempt /\ OptionalAncestors(last.path) = {}) =>
          (IsMissingRequired(last.outcome) /\ pc = "raised" /\ result = last.outcome)

\* Validation returns True exactly when no declared path fails.
TrueExactlyWhenNoPathFails ==
    /\ pc = "done" =>
          /\ result = PyBool(TRUE)
          /\ \A i \in 1..Len(template) : ~IsRaise(ValidatePath(template[i], data, nxdl_root))
    /\ (pc = "raised" /\ nxdl_root # None) =>
          /\ IsRaise(result)
          /\ ValidatePath(template[idx], data, nxdl_root) = result

\* C5 as stated, for every declared path: a path classified RECOMMENDED or
\* OPTIONAL without a populated value causes no failure, a path classified
\* REQUIRED without a populated value and without an optional or recommended
\* ancestor makes validation fail with the missing-required error, and
\* validation returns True exactly when no declared path failed.
C5_PresenceOnlyForRequired_EveryPath ==
    /\ (Examined /\ NoPopulatedValue(last.path) /\ Resolves(last.path)) =>
          PresenceRule(ClassOf(last.path), FALSE)
    /\ TrueExactlyWhenNoPathFails

\* C5, amended: the same, with the failure of a REQUIRED path stated for the
\* paths that are not attributes.
C5_PresenceOnlyForRequired ==
    /\ (Examined /\ NoPopulatedValue(last.path) /\ Resolves(last.path)) =>
          PresenceRule(ClassOf(last.path), IsAttributePath(last.path))
    /\ TrueExactlyWhenNoPathFails

\* C5 witness: validation has passed a recommended path that has no value and
\* then failed on a required one that has none.
C5_Witness ==
    /\ pc = "raised"
    /\ Len(template) = 2
    /\ idx = 2
    /\ Resolves(template[1])
    /\ ClassOf(template[1]) = "<<RECOMMENDED>>"
    /\ NoPopulatedValue(template[1])
    /\ ~IsAttributePath(template[2])
    /\ ClassOf(template[2]) = "<<REQUIRED>>"
    /\ NoPopulatedValue(template[2])
    /\ IsMissingRequired(result)

\* C6: a declared path is matched by schema-path equality only: any entry
\* whose key has the schema path of the declared path supplies it, whatever
\* the suggested names, so a REQUIRED path is satisfied by a value that is
\* not None under a key with other suggested names.
C6_AnyKeyOfTheSchemaPathSupplies ==
    (/\ Examined
     /\ ~IsAttributePath(last.path)
     /\ Resolves(last.path)
     /\ ClassOf(last.path) = "<<REQUIRED>>"
     /\ \E i \in Matches(last.path) : data[i].val # None) =>
        ~IsMissingRequired(last.outcome)

\* The type tags the type table knows, the stand-in for an undeclared type
\* apart.
KnownTypeTags == NexusTypes \ {NXDL_TYPE_UNAVAILABLE}

\* C11: a value checked against a declared type that is not one of the known
\* NeXus type tags is validated as a string: a str passes, a value that is
\* neither a str nor a list fails with the type-mismatch error, and no other
\* error is produced; an undeclared type is treated the same way.
C11_UnknownTypeIsStringLike ==
    (call.fn = "is_valid_data_field" /\ call.nxdl_type \notin KnownTypeTags) =>
        /\ call.ret = None \/ IsTypeMismatch(call.ret)
        /\ call.value.kind = "str" => call.ret = None
        /\ call.value.kind \notin {"str", "list"} => IsTypeMismatch(call.ret)

\* C12: a declared path whose final name begins with "@" never raises the
\* missing-required error, even when the schema classifies it REQUIRED, the
\* dict has no value for it and no ancestor is optional or recommended.
C12_AttributeNeverMissingRequired ==
    (Examined /\ IsAttributePath(last.path)) =>
        (~IsMissingRequired(last.outcome) /\ ~IsMissingRequired(result))

\* C12 witness: the loop has passed an attribute path classified REQUIRED,
\* without a value and without an optional or recommended ancestor.
C12_Witness ==
    /\ Examined
    /\ IsAttributePath(last.path)
    /\ Resolves(last.path)
    /\ ClassOf(last.path) = "<<REQUIRED>>"
    /\ NoPopulatedValue(last.path)
    /\ OptionalAncestors(last.path) = {}
    /\ last.outcome = None
    /\ pc \in {"loop", "done"}

\* The entry of the dict matched for the path: the first, in the dict's
\* order, with the path's schema path.
MatchedEntry(path) ==
    data[CHOOSE i \in Matches(path) : \A j \in Matches(path) : i <= j]

\* The type an element declares, or the stand-in for none.
DeclaredType(e) ==
    IF "type" \in DOMAIN e.attrib THEN e.attrib.type ELSE NXDL_TYPE_UNAVAILABLE

\* The value violates the type, positivity or timestamp check of the
\* element's type, or the element's enumeration.
ViolatesValueChecks(value, e) ==
    \/ IsRaise(is_valid_data_field(value, DeclaredType(e), <<>>))
    \/ ~is_value_valid_element_of_enum(value, e)[1]

\* C13: for a declared attribute path only the requiredness enforcement is
\* skipped: when the dict holds a value that is not None for it, the value
\* still goes through the type, positivity, timestamp and enumeration checks,
\* and a violation makes validation fail.
C13_AttributeValueStillChecked ==
    (/\ Examined
     /\ IsAttributePath(last.path)
     /\ Resolves(last.path)
     /\ ElementAt(last.path) # None
     /\ ~Unsupplied(last.path)
     /\ ViolatesValueChecks(MatchedEntry(last.path).val, ElementAt(last.path))) =>
        (IsRaise(last.outcome) /\ pc = "raised")

\* The declared name without its leading run of uppercase letters.
WithoutUpperPrefix(name) ==
    LET k == CHOOSE n \in 0..Len(name) :
                 /\ \A i \in 1..n : name[i] \in UpperCase
                 /\ n = Len(name) \/ name[n + 1] \notin UpperCase
    IN SubSeq(name, k + 1, Len(name))

\* a is a suffix of b.
IsSuffix(a, b) == \E pre \in {SubSeq(b, 1, n) : n \in 0..Len(b)} : b = pre \o a

ReservedSegments == {DOC, ENUMERATION}

\* C14 as stated, for every field or attribute child: the child matches a
\* segment if and only if its declared name without the leading run of
\* uppercase letters is a suffix of the segment; the segments doc and
\* enumeration match only a declared name equal to them.
C14_NamePatternRule_EveryChild ==
    call.fn = "belongs_to" =>
        IF call.name \in ReservedSegments
        THEN call.ret <=> (call.elem.attrib.name = call.name)
        ELSE call.ret <=> IsSuffix(WithoutUpperPrefix(call.elem.attrib.name), call.name)

\* The child's name is a pattern: its nameType is "any".
IsNamePattern(e) == HasAttr(e, "nameType", "any")

\* C14, amended: a field or attribute child whose nameType is "any" matches a
\* segment other than doc and enumeration if and only if its declared name
\* without the leading run of uppercase letters is a suffix of the segment
\* (a name all in uppercase matches every segment); every other child, and
\* every child for the segments doc and enumeration, matches only when its
\* declared name equals the segment.
C14_NamePatternRule ==
    call.fn = "belongs_to" =>
        IF IsNamePattern(call.elem) /\ call.name \notin ReservedSegments
        THEN call.ret <=> IsSuffix(WithoutUpperPrefix(call.elem.attrib.name), call.name)
        ELSE call.ret <=> (call.elem.attrib.name = call.name)

\* C14 witness: a pattern name whose rest ends the segment doc was asked for
\* doc, and did not match.
C14_Witness ==
    /\ call.fn = "belongs_to"
    /\ IsNamePattern(call.elem)
    /\ call.name = DOC
    /\ call.elem.attrib.name # DOC
    /\ IsSuffix(WithoutUpperPrefix(call.elem.attrib.name), DOC)
    /\ ~call.ret

\* validate_data_dict has been called.
Validating == pc \in {"loop", "raised", "done"}

IsSchemaNotLoaded(x) == IsRaise(x) /\ x.exc = "The NXDL file hasn't been loaded."

\* C15: whenever the schema root is absent, validation fails with the
\* schema-not-loaded error, for every template and dict, the empty template
\* included, before any path is examined and with no other error.
C15_NoRootFailsFirst ==
    (Validating /\ nxdl_root = None) =>
        /\ pc = "raised"
        /\ IsSchemaNotLoaded(result)
        /\ ~Examined

\* C15 witness: validation without a root has failed on a template whose
\* first path, under a loaded schema, fails with another error.
C15_Witness ==
    /\ pc = "raised"
    /\ nxdl_root = None
    /\ IsSchemaNotLoaded(result)
    /\ template # <<>>
    /\ IsMissingRequired(ValidatePath(template[1], data, AppA))

\* The outcome of the loop body for the i-th path of the template.
OutcomeAt(i) == ValidatePath(template[i], data, nxdl_root)

IsEnumMismatch(x) == IsRaise(x) /\ x.exc = "should be one of the following strings"

\* The value is not of a representation accepted for the element's type.
TypeViolated(value, e) ==
    IF value.kind = "list"
    THEN \E i \in 1..Len(value.items) : ~AcceptedFor(value.items[i], DeclaredType(e))
    ELSE ~AcceptedFor(value, DeclaredType(e))

\* Fail-fast over the paths: a failed validation carries the error of the
\* first path of the template that fails and stopped there, nothing being
\* left to happen; a validation under way or returned holds no error, and the
\* path it has just passed is the one before idx and does not fail.
FirstViolationSurfaces ==
    /\ (pc = "raised" /\ nxdl_root # None) =>
          /\ \A i \in 1..(idx - 1) : ~IsRaise(OutcomeAt(i))
          /\ IsRaise(result)
          /\ result = OutcomeAt(idx)
          /\ last = [path |-> template[idx], outcome |-> result]
    /\ pc = "raised" => ~ENABLED Next
    /\ pc \in {"loop", "done"} =>
          /\ ~IsRaise(result)
          /\ idx > 1 =>
                /\ ~IsRaise(last.outcome)
                /\ last = [path |-> template[idx - 1], outcome |-> OutcomeAt(idx - 1)]

\* The order of the checks within one path, for the element e the path
\* resolves to: a path without a value fails, if at all, as missing; a value
\* that violates its type is reported as a type mismatch whatever else it
\* violates; and an enumeration error is reported only for a value that
\* passed the type, positivity and timestamp checks.
ChecksInOrderFor(e) ==
    (~IsRaise(e) /\ e # None) =>
        IF Unsupplied(last.path)
        THEN last.outcome = None \/ IsMissingRequired(last.outcome)
        ELSE LET value == MatchedEntry(last.path).val
             IN /\ ~IsMissingRequired(last.outcome)
                /\ TypeViolated(value, e) => IsTypeMismatch(last.outcome)
                /\ IsEnumMismatch(last.outcome) =>
                      is_valid_data_field(value, DeclaredType(e), <<>>) = None

ChecksInOrder ==
    (Examined /\ nxdl_root # None /\ ~IsAttributePath(last.path)) =>
        ChecksInOrderFor(ElementAt(last.path))

C17_AllowedValuesReturnedAlways ==
    (/\ call.fn = "is_value_valid_element_of_enum"
     /\ call.elem # None
     /\ DeclaresEnumeration(call.elem)) =>
        call.ret[2] = DeclaredEntries(call.elem)

\* The positions of "/" in a path, and the k-th of them.
SlashPositions(path) == {i \in 1..Len(path) : path[i] = "/"}

NthSlash(path, k) ==
    CHOOSE i \in SlashPositions(path) :
        Cardinality({j \in SlashPositions(path) : j <= i}) = k

\* The segments after the leading "/": the k-th lies between the k-th "/" and
\* the next, or the end of the path.
SegmentCount(path) == Cardinality(SlashPositions(path))

SegmentOf(path, k) ==
    SubSeq(path, NthSlash(path, k) + 1,
           IF k < SegmentCount(path) THEN NthSlash(path, k + 1) - 1 ELSE Len(path))

\* A segment without its bracketed suffix: everything from the first "[" on
\* removed, the segment itself when it has no "[".
WithoutSuffix(segment) ==
    IF \E i \in 1..Len(segment) : segment[i] = "["
    THEN SubSeq(segment, 1,
                (CHOOSE i \in 1..Len(segment) :
                    segment[i] = "[" /\ \A j \in 1..(i - 1) : segment[j] # "[") - 1)
    ELSE segment

\* C18: convert_data_converter_dict_to_nxdl_path maps a path with the segments
\* s1..sn after its leading "/" to /t1/.../tn, ti being si without its
\* bracketed suffix (everything from the first "[" on) and si itself when si
\* has no bracket: the number and the order of the segments are kept and the
\* result holds no "[".
C18_SchemaPathSegmentwise ==
    (/\ call.fn = "convert_data_converter_dict_to_nxdl_path"
     /\ call.path # <<>>
     /\ call.path[1] = "/") =>
        /\ SegmentCount(call.ret.s) = SegmentCount(call.path)
        /\ Len(call.ret.s) >= 1 /\ call.ret.s[1] = "/"
        /\ \A k \in 1..SegmentCount(call.path) :
              SegmentOf(call.ret.s, k) = WithoutSuffix(SegmentOf(call.path, k))
        /\ \A i \in 1..Len(call.ret.s) : call.ret.s[i] # "["

\* C18 witness: a path of two segments, the first with two bracketed parts and
\* the second plain, was converted.
C18_Witness ==
    /\ call.fn = "convert_data_converter_dict_to_nxdl_path"
    /\ call.path = <<"/", "B", "[", "c", "]", "[", "d", "]", "/", "a">>
    /\ call.ret = PyStr(<<"/", "B", "/", "a">>)

ConversionCalls ==
    {"convert_data_converter_dict_to_nxdl_path", "convert_data_dict_path_to_hdf5_path"}

\* The path is malformed: empty, or ending in "/".
IsMalformedPath(path) == path = <<>> \/ path[Len(path)] = "/"

NearestOptionalAncestor(path) ==
    CHOOSE k \in OptionalAncestors(path) : \A j \in OptionalAncestors(path) : j <= k

\* C20: only true descendants of the nearest optional or recommended ancestor
\* defeat the suppression of a missing required field: the missing-required
\* error is raised exactly when some entry with a value that is not None has
\* a schema path beneath the ancestor's, segment by segment; an entry
\* elsewhere, one whose schema path merely contains the ancestor's as a
\* substring included, leaves the field suppressed.
C20_OnlyTrueDescendantsDefeatSuppression ==
    (/\ Examined
     /\ ~IsAttributePath(last.path)
     /\ Resolves(last.path)
     /\ ClassOf(last.path) = "<<REQUIRED>>"
     /\ Unsupplied(last.path)
     /\ OptionalAncestors(last.path) # {}) =>
        (IsMissingRequired(last.outcome)
            <=> HasPopulatedDescendant(last.path, NearestOptionalAncestor(last.path)))


\* The number of segments of a path: its pieces between "/" that are not
\* empty.
WalkSegments(path) ==
    Cardinality({i \in 1..Len(Split(path, "/")) : Split(path, "/")[i] # <<>>})

IsRecursionError(x) == IsRaise(x) /\ x.exc = "RecursionError"

\* C21: the optional-ancestor walk terminates for every path it is given, in
\* at most as many steps as the path has segments: no call of
\* check_for_optional_parent takes more steps than that, and none ends in
\* the interpreter's RecursionError.
C21_WalkEndsWithinItsSegments ==
    call.fn = "check_for_optional_parent" =>
        /\ call.depth <= WalkSegments(call.path)
        /\ ~IsRecursionError(call.ret)


\* The entry of the dict is one the template declares: its schema path is
\* that of the declared path, which is not an attribute.
EntryIsDeclaredBy(i, path) ==
    /\ ~IsAttributePath(path)
    /\ SchemaSegments(data[i].key) = SchemaSegments(path)

\* C22: validation is sound over the populated template.  When
\* validate_data_dict has returned True, every entry of the dict with a value
\* that is not None and the schema path of a declared non-attribute path
\* passes the type and enumeration checks of the node of that path, also
\* when several keys of the dict have that schema path.
C22_TrueMeansEveryDeclaredEntryChecked ==
    pc = "done" =>
        \A i \in 1..Len(data), j \in 1..Len(template) :
            (data[i].val # None /\ EntryIsDeclaredBy(i, template[j])) =>
                ~ViolatesValueChecks(data[i].val, ElementAt(template[j]))


\* C23: a declared non-attribute path that resolves to no node of the schema
\* is not enforced: when the dict holds no value for it, the iteration on
\* that path raises nothing and validation goes on to the next declared path.
C23_PathNotInSchemaIsPassedOver ==
    (/\ Examined
     /\ ~IsAttributePath(last.path)
     /\ ElementAt(last.path) = None
     /\ NoPopulatedValue(last.path)) =>
        (last.outcome = None /\ pc # "raised")

=============================================================================
